---------------------------- MODULE Spec2Model ----------------------------
(***************************************************************************)
(* A model of redis-cli-rs: the RESP value type, its encoder (to_wire),    *)
(* its decoder (RedisValue::deserialize in src/redis.rs and                *)
(* parse_redis_output in src/main.rs) and the client's read loop           *)
(* (read_redis_output / consume_all_output / stream / interactive).        *)
(*                                                                         *)
(* A byte is a one-character string and a buffer a sequence of bytes.      *)
(* A RedisValue is a record tagged by its variant:                         *)
(*   [t |-> "Str", s |-> bytes]    [t |-> "Error", s |-> bytes]            *)
(*   [t |-> "Bulk", s |-> bytes]   [t |-> "Int", i |-> integer]            *)
(*   [t |-> "Nil"]                 [t |-> "Array", v |-> sequence]         *)
(* All payload bytes of the model are ASCII, so String::from_utf8_lossy is *)
(* the identity on them and String::len is the number of bytes.  Every     *)
(* number of the model has at most three digits, far from the i32, i64 and *)
(* usize limits at which str::parse fails by overflow.                     *)
(***************************************************************************)
EXTENDS Integers, Sequences, FiniteSets, TLC

VARIABLES
    \* the codec calls (pure functions applied to drawn inputs)
    mode,       \* "codec": a buffer of values; "command": an argument list;
                \* for the client its entry point, "interactive" or "stream"
    args,       \* the text arguments handed to from_vec
    vals,       \* the values handed to the encoder
    lib,        \* whose codec is applied: "none", "redis" (src/redis.rs), "main" (src/main.rs)
    buf,        \* the byte buffer
    pos,        \* bytes of buf consumed by the deserialize calls so far
    out,        \* what each deserialize call returned: <<value, consumed>>
    st,         \* "idle", "init", "built", "wire", "decoding", "none", "panic"
    damage,     \* what happened to buf after encoding: "none", "tail", "cut", "tag", "num"
    hit,        \* the 0-based offset of the byte overwritten ("tag", "num"), else -1
    \* the client of src/main.rs and its transport
    cmd,        \* args[0], the command name
    replies,    \* the values the remote party sends, in order
    pending,    \* bytes the remote party has written that have not arrived yet
    sock,       \* bytes that arrived and were not read yet
    closed,     \* the remote party closed the connection
    pc,         \* "idle", "write", "read", "parse", "returned", "panicked", "exited"
    res,        \* read_redis_output's accumulated burst
    request,    \* the bytes of the command written to the connection
    printed     \* the values printed so far

codecVars == <<mode, args, vals, lib, buf, pos, out, st, damage, hit>>
clientVars == <<cmd, replies, pending, sock, closed, request, pc, res, printed>>
vars == <<mode, args, vals, lib, buf, pos, out, st, damage, hit,
          cmd, replies, pending, sock, closed, request, pc, res, printed>>

CR == "\r"
LF == "\n"
CRLF == <<CR, LF>>

Min(a, b) == IF a < b THEN a ELSE b
Max(a, b) == IF a > b THEN a ELSE b

(***************************************************************************)
(* The value type.                                                         *)
(***************************************************************************)
Str(s) == [t |-> "Str", s |-> s]
Error(s) == [t |-> "Error", s |-> s]
Bulk(s) == [t |-> "Bulk", s |-> s]
IntV(i) == [t |-> "Int", i |-> i]
Nil == [t |-> "Nil"]
Array(v) == [t |-> "Array", v |-> v]

(***************************************************************************)
(* format!("{}", n) of an integer and str::parse of a number.              *)
(***************************************************************************)
DigitChars == <<"0", "1", "2", "3", "4", "5", "6", "7", "8", "9">>
IsDigit(c) == \E d \in 1..10 : DigitChars[d] = c
DigitVal(c) == (CHOOSE d \in 1..10 : DigitChars[d] = c) - 1

RECURSIVE format_nat(_)
format_nat(n) ==
    IF n < 10 THEN <<DigitChars[n + 1]>>
    ELSE format_nat(n \div 10) \o <<DigitChars[(n % 10) + 1]>>

format_int(i) == IF i < 0 THEN <<"-">> \o format_nat(-i) ELSE format_nat(i)

RECURSIVE digits_value(_, _)
digits_value(s, acc) ==
    IF s = <<>> THEN acc
    ELSE digits_value(Tail(s), acc * 10 + DigitVal(Head(s)))

AllDigits(s) == \A k \in 1..Len(s) : IsDigit(s[k])

\* str::parse::<i32>() and ::<i64>(): an optional sign, then one digit or more
parse_signed(s) ==
    IF s = <<>> THEN [ok |-> FALSE, n |-> 0]
    ELSE LET signed == Head(s) \in {"+", "-"}
             ds == IF signed THEN Tail(s) ELSE s
         IN IF ds = <<>> \/ ~AllDigits(ds) THEN [ok |-> FALSE, n |-> 0]
            ELSE [ok |-> TRUE,
                  n |-> IF Head(s) = "-" THEN -digits_value(ds, 0)
                        ELSE digits_value(ds, 0)]

\* str::parse::<usize>(): an optional '+', then one digit or more
parse_unsigned(s) ==
    IF s = <<>> THEN [ok |-> FALSE, n |-> 0]
    ELSE LET ds == IF Head(s) = "+" THEN Tail(s) ELSE s
         IN IF ds = <<>> \/ ~AllDigits(ds) THEN [ok |-> FALSE, n |-> 0]
            ELSE [ok |-> TRUE, n |-> digits_value(ds, 0)]

\* Result::unwrap_or(0)
unwrap_or_0(r) == IF r.ok THEN r.n ELSE 0

(***************************************************************************)
(* src/redis.rs: from_vec, to_wire, deserialize.                           *)
(***************************************************************************)
\* the bug of building an array for every argument list, the empty one too
from_vec_always_array(v) == Array([k \in 1..Len(v) |-> Bulk(v[k])])

from_vec(v) ==
    IF Len(v) = 0 THEN Nil
    ELSE Array([k \in 1..Len(v) |-> Bulk(v[k])])

RECURSIVE to_wire(_)
RECURSIVE to_wire_all(_)
to_wire(val) ==
    CASE val.t = "Str" -> <<"+">> \o val.s \o CRLF
      [] val.t = "Bulk" -> <<"$">> \o format_nat(Len(val.s)) \o CRLF \o val.s \o CRLF
      [] val.t = "Int" -> <<":">> \o format_int(val.i) \o CRLF
      [] val.t = "Nil" -> <<"$">> \o format_int(-1) \o CRLF
      [] val.t = "Error" -> <<"-">> \o val.s \o CRLF
      [] val.t = "Array" -> <<"*">> \o format_nat(Len(val.v)) \o CRLF \o to_wire_all(val.v)

\* the encodings of a sequence of values, one after the other
to_wire_all(v) ==
    IF v = <<>> THEN <<>> ELSE to_wire(Head(v)) \o to_wire_all(Tail(v))

\* the bug of leaving the LF after the CR unread (no "ts.next(); // eat \n")
match_string_keeps_lf(s, p) ==
    LET crs == {k \in (p + 1)..Len(s) : s[k] = CR}
        j == IF crs = {} THEN Len(s) + 1
             ELSE CHOOSE k \in crs : \A m \in crs : k <= m
    IN [str |-> SubSeq(s, p + 1, j - 1),
        pos |-> Min(j, Len(s))]

\* the iterator ts over s is the number p of bytes it has yielded
match_string(s, p) ==
    LET crs == {k \in (p + 1)..Len(s) : s[k] = CR}
        j == IF crs = {} THEN Len(s) + 1
             ELSE CHOOSE k \in crs : \A m \in crs : k <= m
    IN [str |-> SubSeq(s, p + 1, j - 1),
        pos |-> Min(j + 1, Len(s))]

RECURSIVE match_value(_, _)
RECURSIVE match_elems(_, _, _, _)
match_value(s, p) ==
    IF p >= Len(s) THEN [kind |-> "None", pos |-> p]
    ELSE LET ch == s[p + 1]
             ms == match_string(s, p + 1)
         IN CASE ch = "-" -> [kind |-> "Some", v |-> Error(ms.str), pos |-> ms.pos]
              [] ch = "+" -> [kind |-> "Some", v |-> Str(ms.str), pos |-> ms.pos]
              [] ch = "$" ->
                    LET n == unwrap_or_0(parse_signed(ms.str))
                    IN IF n = -1 THEN [kind |-> "Some", v |-> Nil, pos |-> ms.pos]
                       ELSE IF n > 0 /\ ms.pos + n > Len(s)
                            THEN [kind |-> "Panic", pos |-> Len(s)]
                            ELSE [kind |-> "Some",
                                  v |-> Bulk(SubSeq(s, ms.pos + 1, ms.pos + Max(n, 0))),
                                  pos |-> Min(ms.pos + Max(n, 0) + 2, Len(s))]
              [] ch = ":" ->
                    [kind |-> "Some", v |-> IntV(unwrap_or_0(parse_signed(ms.str))),
                     pos |-> ms.pos]
              [] ch = "*" ->
                    match_elems(s, ms.pos, unwrap_or_0(parse_unsigned(ms.str)), <<>>)
              [] OTHER -> [kind |-> "Panic", pos |-> p + 1]

\* the fold over 0..n: match_value(ts).expect("invalid resp") for each element
match_elems(s, p, n, acc) ==
    IF n = 0 THEN [kind |-> "Some", v |-> Array(acc), pos |-> p]
    ELSE LET r == match_value(s, p)
         IN IF r.kind = "Some" THEN match_elems(s, r.pos, n - 1, Append(acc, r.v))
            ELSE [kind |-> "Panic", pos |-> r.pos]

\* the bug of reporting the whole buffer as consumed (s.len() for
\* s.len() - ts.size_hint().0)
deserialize_consumes_all(s) ==
    IF Len(s) = 0 THEN [kind |-> "None"]
    ELSE LET r == match_value(s, 0)
         IN CASE r.kind = "Some" -> [kind |-> "Some", v |-> r.v, n |-> Len(s)]
              [] r.kind = "None" -> [kind |-> "None"]
              [] OTHER -> [kind |-> "Panic"]

deserialize(s) ==
    IF Len(s) = 0 THEN [kind |-> "None"]
    ELSE LET r == match_value(s, 0)
         IN CASE r.kind = "Some" -> [kind |-> "Some", v |-> r.v, n |-> r.pos]
              [] r.kind = "None" -> [kind |-> "None"]
              [] OTHER -> [kind |-> "Panic"]

(***************************************************************************)
(* src/main.rs: its own to_wire, parse_string, parse_redis_output.         *)
(***************************************************************************)
RECURSIVE main_to_wire(_)
RECURSIVE main_to_wire_all(_)
main_to_wire(val) ==
    CASE val.t = "Str" -> <<"+">> \o <<"+">> \o val.s \o CRLF
      [] val.t = "Bulk" -> <<"$">> \o format_nat(Len(val.s)) \o CRLF \o val.s \o CRLF
      [] val.t = "Int" -> <<":">> \o format_int(val.i) \o CRLF
      [] val.t = "Nil" -> <<"$">> \o format_int(-1) \o CRLF
      [] val.t = "Error" -> <<"-">> \o val.s \o CRLF
      [] val.t = "Array" ->
            <<"*">> \o format_nat(Len(val.v)) \o CRLF \o main_to_wire_all(val.v)

main_to_wire_all(v) ==
    IF v = <<>> THEN <<>> ELSE main_to_wire(Head(v)) \o main_to_wire_all(Tail(v))

\* s.find("\r\n"): the 0-based index of the first CR LF of s, or -1
find_crlf(s) ==
    LET at == {k \in 1..(Len(s) - 1) : s[k] = CR /\ s[k + 1] = LF}
    IN IF at = {} THEN -1 ELSE (CHOOSE k \in at : \A m \in at : k <= m) - 1

\* &s[k..]
from(s, k) == SubSeq(s, k + 1, Len(s))

parse_string(s) ==
    LET i == find_crlf(s)
    IN IF i < 0 THEN [kind |-> "Panic"]
       ELSE [kind |-> "Ok", rest |-> from(s, i + 2), str |-> SubSeq(s, 1, i)]

RECURSIVE parse_redis_output(_)
RECURSIVE parse_elems(_, _, _)
parse_redis_output(s0) ==
    IF Len(s0) = 0 THEN [kind |-> "Panic"]
    ELSE LET tok == s0[1]
             s == Tail(s0)
             ps == parse_string(s)
             i == find_crlf(s)
         IN CASE tok = "-" ->
                    IF ps.kind = "Panic" THEN ps
                    ELSE [kind |-> "Ok", rest |-> ps.rest, v |-> Error(ps.str)]
              [] tok = "+" ->
                    IF ps.kind = "Panic" THEN ps
                    ELSE [kind |-> "Ok", rest |-> ps.rest, v |-> Str(ps.str)]
              [] tok = "$" ->
                    IF i < 0 THEN [kind |-> "Panic"]
                    ELSE LET n == unwrap_or_0(parse_signed(SubSeq(s, 1, i)))
                         IN IF n = -1 THEN [kind |-> "Ok", rest |-> from(s, i + 2), v |-> Nil]
                            ELSE IF n < 0 \/ i + 2 + n + 2 > Len(s)
                                 THEN [kind |-> "Panic"]
                                 ELSE [kind |-> "Ok", rest |-> from(s, i + 2 + n + 2),
                                       v |-> Bulk(SubSeq(s, i + 3, i + 2 + n))]
              [] tok = ":" ->
                    IF ps.kind = "Panic" THEN ps
                    ELSE [kind |-> "Ok", rest |-> ps.rest,
                          v |-> IntV(unwrap_or_0(parse_signed(ps.str)))]
              [] tok = "*" ->
                    IF i < 0 THEN [kind |-> "Panic"]
                    ELSE parse_elems(from(s, i + 2),
                                     unwrap_or_0(parse_unsigned(SubSeq(s, 1, i))), <<>>)
              [] OTHER -> [kind |-> "Ok", rest |-> s, v |-> Error(<<"u", "n", "k", "n", "o", "w", "n">>)]

\* for _ in 0..n { let (t, r) = parse_redis_output(s); v.push(r); s = t; }
parse_elems(s, n, acc) ==
    IF n = 0 THEN [kind |-> "Ok", rest |-> s, v |-> Array(acc)]
    ELSE LET r == parse_redis_output(s)
         IN IF r.kind = "Ok" THEN parse_elems(r.rest, n - 1, Append(acc, r.v))
            ELSE r

(***************************************************************************)
(* The inputs of the codec: every sequence of values with at most MaxNodes *)
(* value nodes in all (an array counts one node more than its elements),   *)
(* over a few payloads of each scalar variant; and every list of at most   *)
(* MaxArgs arguments.  A Str or Error payload holds no CR or LF (spec.md,  *)
(* section 3); a Bulk payload may.                                         *)
(***************************************************************************)
MaxNodes == 3
MaxArgs == 2

TextPayloads == {<<>>, <<"O", "K">>}
ErrorPayloads == {<<"E", "R", "R">>}
BulkPayloads == {<<>>, <<CR, LF>>, <<"+", CR, "1">>}
IntPayloads == {0, -12}
ArgTexts == {<<"g", "e", "t">>, <<"k">>}

Scalars ==
    {Str(s) : s \in TextPayloads} \cup {Error(s) : s \in ErrorPayloads}
    \cup {Bulk(s) : s \in BulkPayloads} \cup {IntV(i) : i \in IntPayloads} \cup {Nil}

RECURSIVE TreesOf(_)
RECURSIVE ForestsOf(_)
\* the values of exactly n nodes
TreesOf(n) ==
    (IF n = 1 THEN Scalars ELSE {}) \cup {Array(f) : f \in ForestsOf(n - 1)}

\* the sequences of values of exactly n nodes in all
ForestsOf(n) ==
    IF n = 0 THEN {<<>>}
    ELSE UNION {{<<v>> \o f : v \in TreesOf(k), f \in ForestsOf(n - k)} : k \in 1..n}

Forests == UNION {ForestsOf(n) : n \in 0..MaxNodes}
ArgLists == UNION {[1..n -> ArgTexts] : n \in 0..MaxArgs}

ClientIdle ==
    /\ cmd = <<>> /\ replies = <<>> /\ pending = <<>> /\ sock = <<>>
    /\ closed = FALSE /\ request = <<>> /\ pc = "idle" /\ res = <<>> /\ printed = <<>>

Init ==
    /\ mode \in {"codec", "command"}
    /\ IF mode = "codec" THEN vals \in Forests /\ args = <<>>
       ELSE args \in ArgLists /\ vals = <<>>
    /\ lib = "none" /\ buf = <<>> /\ pos = 0 /\ out = <<>>
    /\ st = "init" /\ damage = "none" /\ hit = -1
    /\ ClientIdle

(***************************************************************************)
(* The operations of the codec.                                            *)
(***************************************************************************)
\* RedisValue::from_vec(args)
FromVec ==
    /\ mode = "command" /\ st = "init"
    /\ vals' = <<from_vec(args)>>
    /\ st' = "built"
    /\ UNCHANGED <<mode, args, lib, buf, pos, out, damage, hit>>
    /\ UNCHANGED clientVars

CanEncode == (mode = "codec" /\ st = "init") \/ st = "built"

\* src/redis.rs: each value's to_wire(), written to one buffer
ToWire ==
    /\ CanEncode
    /\ buf' = to_wire_all(vals)
    /\ lib' = "redis"
    /\ st' = "wire"
    /\ UNCHANGED <<mode, args, vals, pos, out, damage, hit>>
    /\ UNCHANGED clientVars

\* src/main.rs: each value's to_wire(), written to one buffer
MainToWire ==
    /\ CanEncode
    /\ buf' = main_to_wire_all(vals)
    /\ lib' = "main"
    /\ st' = "wire"
    /\ UNCHANGED <<mode, args, vals, pos, out, damage, hit>>
    /\ UNCHANGED clientVars

\* src/redis.rs: RedisValue::deserialize(&buf[pos..])
Deserialize ==
    /\ lib = "redis" /\ st \in {"wire", "decoding"}
    /\ LET r == deserialize(from(buf, pos))
       IN CASE r.kind = "Some" ->
                    /\ out' = Append(out, <<r.v, r.n>>)
                    /\ pos' = pos + r.n
                    /\ st' = "decoding"
            [] r.kind = "None" ->
                    /\ st' = "none"
                    /\ UNCHANGED <<out, pos>>
            [] OTHER ->
                    /\ st' = "panic"
                    /\ UNCHANGED <<out, pos>>
    /\ UNCHANGED <<mode, args, vals, lib, buf, damage, hit>>
    /\ UNCHANGED clientVars

\* src/main.rs: parse_redis_output(&buf[pos..]), as consume_all_output calls it
\* while the rest is not empty
ParseRedisOutput ==
    /\ lib = "main" /\ st \in {"wire", "decoding"}
    /\ IF pos = Len(buf) THEN st' = "none" /\ UNCHANGED <<out, pos>>
       ELSE LET r == parse_redis_output(from(buf, pos))
            IN IF r.kind = "Ok"
               THEN /\ out' = Append(out, <<r.v, Len(buf) - pos - Len(r.rest)>>)
                    /\ pos' = Len(buf) - Len(r.rest)
                    /\ st' = "decoding"
               ELSE /\ st' = "panic"
                    /\ UNCHANGED <<out, pos>>
    /\ UNCHANGED <<mode, args, vals, lib, buf, damage, hit>>
    /\ UNCHANGED clientVars

\* further bytes follow the encoded values in the buffer, as in test_deserialize2
Tails == {<<"+", "a">>, <<":", "7", CR, LF>>}

AppendTail ==
    /\ st = "wire" /\ damage = "none"
    /\ \E tl \in Tails : buf' = buf \o tl
    /\ damage' = "tail"
    /\ UNCHANGED <<mode, args, vals, lib, pos, out, st, hit>>
    /\ UNCHANGED clientVars

Next ==
    FromVec \/ ToWire \/ MainToWire \/ AppendTail \/ Deserialize \/ ParseRedisOutput

Spec == Init /\ [][Next]_vars

(***************************************************************************)
(* Buffers that are not a sequence of whole, well-formed values: the end   *)
(* of the buffer is missing, or one byte of it is not what the encoder     *)
(* wrote.                                                                  *)
(***************************************************************************)
wire_of(l, v) == IF l = "redis" THEN to_wire(v) ELSE main_to_wire(v)

\* the bytes of an array's "*<count>\r\n" or a bulk string's "$<len>\r\n" line
HeaderLen(n) == 1 + Len(format_nat(n)) + 2

\* every value of the sequence f, nested ones included, with the 0-based
\* offset of its tag byte when f is encoded from offset base on
RECURSIVE Nodes(_, _, _)
Nodes(l, f, base) ==
    IF f = <<>> THEN {}
    ELSE LET v == Head(f)
         IN {[at |-> base, t |-> v.t]}
            \cup (IF v.t = "Array" THEN Nodes(l, v.v, base + HeaderLen(Len(v.v))) ELSE {})
            \cup Nodes(l, Tail(f), base + Len(wire_of(l, v)))

BadBytes == {"#", "x"}

\* the last byte of the buffer has not arrived
Truncate ==
    /\ st = "wire" /\ damage \in {"none", "cut"} /\ buf # <<>>
    /\ buf' = SubSeq(buf, 1, Len(buf) - 1)
    /\ damage' = "cut"
    /\ UNCHANGED <<mode, args, vals, lib, pos, out, st, hit>>
    /\ UNCHANGED clientVars

\* the tag byte of one value is none of + - : $ *
CorruptTag ==
    /\ st = "wire" /\ damage = "none"
    /\ \E n \in Nodes(lib, vals, 0), b \in BadBytes :
          /\ buf' = [buf EXCEPT ![n.at + 1] = b]
          /\ hit' = n.at
    /\ damage' = "tag"
    /\ UNCHANGED <<mode, args, vals, lib, pos, out, st>>
    /\ UNCHANGED clientVars

\* the first byte of a length, a count or an integer payload is no digit or sign
CorruptNum ==
    /\ st = "wire" /\ damage = "none"
    /\ \E n \in Nodes(lib, vals, 0), b \in BadBytes :
          /\ n.t \in {"Bulk", "Nil", "Int", "Array"}
          /\ buf' = [buf EXCEPT ![n.at + 2] = b]
          /\ hit' = n.at + 1
    /\ damage' = "num"
    /\ UNCHANGED <<mode, args, vals, lib, pos, out, st>>
    /\ UNCHANGED clientVars

FaultNext == Next \/ Truncate \/ CorruptTag \/ CorruptNum

FaultSpec == Init /\ [][FaultNext]_vars

(***************************************************************************)
(* The remote party and the transport.  The remote party writes the        *)
(* encodings of its replies in order; the transport delivers them to the   *)
(* client's socket in segments of any size.                                *)
(***************************************************************************)
\* the wire format of section 6 of spec.md
RECURSIVE Resp(_)
RECURSIVE RespAll(_)
Resp(val) ==
    CASE val.t = "Str" -> <<"+">> \o val.s \o CRLF
      [] val.t = "Error" -> <<"-">> \o val.s \o CRLF
      [] val.t = "Int" -> <<":">> \o format_int(val.i) \o CRLF
      [] val.t = "Bulk" -> <<"$">> \o format_nat(Len(val.s)) \o CRLF \o val.s \o CRLF
      [] val.t = "Nil" -> <<"$", "-", "1">> \o CRLF
      [] val.t = "Array" -> <<"*">> \o format_nat(Len(val.v)) \o CRLF \o RespAll(val.v)

RespAll(v) == IF v = <<>> THEN <<>> ELSE Resp(Head(v)) \o RespAll(Tail(v))

(***************************************************************************)
(* The client of src/main.rs: interactive() or stream() writes one         *)
(* command, then reads and prints.  "monitor" and "subscribe" loop on      *)
(* consume_all_output; any other command is answered by one reply.         *)
(***************************************************************************)
READ_CHUNK == 32
MaxReplies == 2

Monitor == <<"m", "o", "n", "i", "t", "o", "r">>
Subscribe == <<"s", "u", "b", "s", "c", "r", "i", "b", "e">>
Get == <<"g", "e", "t">>
Commands == {<<Monitor>>, <<Subscribe, <<"k">>>>, <<Get, <<"k">>>>}

\* "$25\r\n", 25 bytes, "\r\n": an encoding of 32 bytes, one read chunk exactly
ChunkPayload == [k \in 1..25 |-> "a"]
ReplyValues ==
    {Str(<<"O", "K">>), Bulk(ChunkPayload), Array(<<Bulk(<<"m", "s", "g">>), IntV(34)>>)}
ReplyLists(n) == UNION {[1..k -> ReplyValues] : k \in 1..n}

IsPush == cmd \in {Monitor, Subscribe}

CodecIdle ==
    /\ vals = <<>> /\ lib = "none" /\ buf = <<>> /\ pos = 0 /\ out = <<>>
    /\ st = "idle" /\ damage = "none" /\ hit = -1

ClientInit ==
    /\ mode \in {"interactive", "stream"}
    /\ args \in Commands
    /\ cmd = args[1]
    /\ replies \in (IF IsPush THEN ReplyLists(MaxReplies) ELSE ReplyLists(1))
    /\ pending = RespAll(replies)
    /\ sock = <<>> /\ closed = FALSE
    /\ request = <<>>
    /\ pc = "write" /\ res = <<>> /\ printed = <<>>
    /\ CodecIdle

\* the transport delivers the next k bytes the remote party wrote, as long as
\* the client is there to receive them
Deliver ==
    /\ pc \in {"read", "parse"} /\ pending # <<>>
    /\ \E k \in 1..Len(pending) :
          /\ sock' = sock \o SubSeq(pending, 1, k)
          /\ pending' = from(pending, k)
    /\ UNCHANGED <<cmd, replies, closed, request, pc, res, printed>>
    /\ UNCHANGED codecVars

\* the remote party closes the connection after its last byte
Close ==
    /\ pc \in {"read", "parse"} /\ pending = <<>> /\ ~closed
    /\ closed' = TRUE
    /\ UNCHANGED <<cmd, replies, pending, sock, request, pc, res, printed>>
    /\ UNCHANGED codecVars

\* cli.write(RedisValue::from_vec(args).to_wire()?.as_slice())
WriteCommand ==
    /\ pc = "write"
    /\ request' = main_to_wire(from_vec(args))
    /\ pc' = "read"
    /\ UNCHANGED <<cmd, replies, pending, sock, closed, res, printed>>
    /\ UNCHANGED codecVars

\* one cli.read(&mut buf[..]) of read_redis_output's loop: it completes when
\* bytes are there or the connection is closed, and n < 32 ends the burst
Read ==
    /\ pc = "read"
    /\ sock # <<>> \/ closed
    /\ LET n == Min(READ_CHUNK, Len(sock))
       IN /\ res' = res \o SubSeq(sock, 1, n)
          /\ sock' = from(sock, n)
          /\ pc' = IF n < READ_CHUNK THEN "parse" ELSE "read"
    /\ UNCHANGED <<cmd, replies, pending, closed, request, printed>>
    /\ UNCHANGED codecVars

\* consume_all_output's loop: while s.len() > 0 { parse, println, s = left }
RECURSIVE consume(_, _)
consume(s, acc) ==
    IF Len(s) = 0 THEN [ok |-> TRUE, printed |-> acc]
    ELSE LET r == parse_redis_output(s)
         IN IF r.kind = "Ok" THEN consume(r.rest, Append(acc, r.v))
            ELSE [ok |-> FALSE, printed |-> acc]

\* every run of bytes a burst can hold, and the two parsers tabulated over them
\* (evaluated once: the actions below look their burst up)
Streams == {RespAll(l) : l \in ReplyLists(MaxReplies)}
Bursts ==
    UNION {{SubSeq(s, i, j) : i \in 1..(Len(s) + 1), j \in 0..Len(s)} : s \in Streams}
burst_consumed == [s \in Bursts |-> consume(s, <<>>)]
burst_parsed == [s \in Bursts |-> parse_redis_output(s)]

\* the rest of consume_all_output once the burst is read; the push loop then
\* calls consume_all_output again, stream() returns
ConsumeAllOutput ==
    /\ pc = "parse"
    /\ IsPush \/ mode = "stream"
    /\ LET c == burst_consumed[res]
       IN /\ printed' = printed \o c.printed
          /\ pc' = IF ~c.ok THEN "panicked"
                   ELSE IF IsPush THEN "read" ELSE "returned"
    /\ res' = <<>>
    /\ UNCHANGED <<cmd, replies, pending, sock, closed, request>>
    /\ UNCHANGED codecVars

\* interactive(): println!("{}", parse_redis_output(&res).1), then the prompt
PrintReply ==
    /\ pc = "parse"
    /\ ~IsPush /\ mode = "interactive"
    /\ LET r == burst_parsed[res]
       IN IF r.kind = "Ok"
          THEN printed' = Append(printed, r.v) /\ pc' = "returned"
          ELSE printed' = printed /\ pc' = "panicked"
    /\ res' = <<>>
    /\ UNCHANGED <<cmd, replies, pending, sock, closed, request>>
    /\ UNCHANGED codecVars

\* SIGINT: the handler registered by main() prints "quit" and exits the process
Interrupt ==
    /\ pc \in {"write", "read", "parse"}
    /\ pc' = "exited"
    /\ UNCHANGED <<cmd, replies, pending, sock, closed, request, res, printed>>
    /\ UNCHANGED codecVars

\* the client's own steps
ClientStep == WriteCommand \/ Read \/ ConsumeAllOutput \/ PrintReply

ClientNext ==
    Deliver \/ Close \/ Interrupt \/ WriteCommand \/ Read \/ ConsumeAllOutput \/ PrintReply

ClientSpec == ClientInit /\ [][ClientNext]_vars

\* the runtime resumes the client whenever its read can complete, and the
\* client's own steps run to their end
ClientFair == ClientSpec /\ WF_vars(ClientStep)

(***************************************************************************)
(* The codec's properties.                                                 *)
(***************************************************************************)
Decoded == st \in {"decoding", "none", "panic"}

\* the offset in buf at which the j-th deserialize call started
RECURSIVE StartOf(_)
StartOf(j) == IF j = 1 THEN 0 ELSE StartOf(j - 1) + out[j - 1][2]

\* C1: round trip. Decoding the bytes that to_wire produced for one value v
\* returns exactly v, and a consumed count that is the length of the encoding.
RoundTrip ==
    (lib = "redis" /\ damage = "none" /\ Len(vals) = 1 /\ Decoded)
        => /\ Len(out) >= 1
           /\ out[1] = <<vals[1], Len(buf)>>

\* a nested array holding an empty array and an empty bulk string made the trip
RoundTripWitness ==
    /\ lib = "redis" /\ damage = "none" /\ st = "decoding"
    /\ vals = <<Array(<<Array(<<>>), Bulk(<<>>)>>)>>
    /\ out = <<<<vals[1], Len(buf)>>>>

\* C2: multi-value buffer. With the encodings of v1..vk one after the other in
\* the buffer, further bytes following them or not, the successive deserialize
\* calls on the unconsumed rest return v1..vk in order, each consuming the bytes
\* of its own value (re-encoding the value gives back those bytes); no call
\* fails before vk is out; and with nothing after vk, no byte is left and the
\* next call returns None.
MultiValue ==
    (lib = "redis" /\ damage \in {"none", "tail"})
        => /\ \A j \in 1..Min(Len(out), Len(vals)) :
                 /\ out[j][1] = vals[j]
                 /\ out[j][2] = Len(to_wire(vals[j]))
                 /\ to_wire(out[j][1]) = SubSeq(buf, StartOf(j) + 1, StartOf(j) + out[j][2])
           /\ st \in {"none", "panic"} => Len(out) >= Len(vals)
           /\ damage = "none" =>
                 /\ st # "panic"
                 /\ Len(out) <= Len(vals)
                 /\ Len(out) = Len(vals) => pos = Len(buf)
                 /\ st = "none" => Len(out) = Len(vals)

\* an integer, then a simple string, both decoded, and None on the empty rest
MultiValueWitness ==
    /\ lib = "redis" /\ damage = "none" /\ st = "none"
    /\ vals = <<IntV(-12), Str(<<"O", "K">>)>>
    /\ out = <<<<IntV(-12), 6>>, <<Str(<<"O", "K">>), 5>>>>
    /\ pos = Len(buf)

\* C3: truncation. A buffer that holds a bulk string's length line but not all
\* of its payload and terminator decodes to Incomplete (None): no value, no crash.
TruncatedBulkIncomplete ==
    (/\ damage = "cut" /\ Decoded
     /\ Len(vals) = 1 /\ vals[1].t = "Bulk"
     /\ Len(buf) >= HeaderLen(Len(vals[1].s)))
        => st = "none" /\ out = <<>>

\* C4: partial array. A buffer that holds an array's count line but not all of
\* its elements decodes to Incomplete (None): no value, no crash.
PartialArrayIncomplete ==
    (/\ damage = "cut" /\ Decoded
     /\ Len(vals) = 1 /\ vals[1].t = "Array" /\ Len(vals[1].v) >= 1
     /\ Len(buf) >= HeaderLen(Len(vals[1].v)))
        => st = "none" /\ out = <<>>

\* C5: malformed tag. When the tag byte of a value in the buffer is none of
\* + - : $ * the decoder reports MalformedFrame: it does not crash, does not
\* report Incomplete, and returns no value made from the bytes at that tag.
MalformedTagRejected ==
    damage = "tag" => (st \notin {"panic", "none"} /\ pos <= hit)

\* C6: malformed numeric field. When a length, a count or an integer payload
\* is not a number the decoder reports MalformedFrame: it does not crash, does
\* not report Incomplete, and returns no value (no Bulk(""), Array([]) or
\* Integer(0)) made from that field.
MalformedNumberRejected ==
    damage = "num" => (st \notin {"panic", "none"} /\ pos <= hit)

\* C7: wire format of the encoder of src/main.rs. to_wire emits one tag byte,
\* the payload and CR LF: '+' s CRLF for Str(s), '-' s CRLF for Error(s),
\* ':' decimal CRLF for Int, '$' length CRLF s CRLF for Bulk(s), '$-1' CRLF
\* for Nil, '*' count CRLF and the elements' encodings in order for Array.
MainWireFormat ==
    (lib = "main" /\ st = "wire" /\ damage = "none") => buf = RespAll(vals)

\* C8: command construction. from_vec of a non-empty argument list is an Array
\* of Bulk strings, one per argument and in the same order; from_vec of the
\* empty list is Nil.
FromVecShape ==
    (mode = "command" /\ st = "built")
        => /\ Len(vals) = 1
           /\ IF Len(args) = 0 THEN vals[1].t = "Nil"
              ELSE /\ vals[1].t = "Array"
                   /\ Len(vals[1].v) = Len(args)
                   /\ \A k \in 1..Len(args) :
                         vals[1].v[k].t = "Bulk" /\ vals[1].v[k].s = args[k]

\* a two-word command was built
FromVecWitness ==
    /\ mode = "command" /\ st = "built"
    /\ args = <<<<"g", "e", "t">>, <<"k">>>>
    /\ vals = <<Array(<<Bulk(<<"g", "e", "t">>), Bulk(<<"k">>)>>)>>

(***************************************************************************)
(* The client's properties.                                                *)
(***************************************************************************)
IsPrefix(a, b) == Len(a) <= Len(b) /\ a = SubSeq(b, 1, Len(a))

\* C9: chunking independence. However the transport splits the bytes of the
\* values pushed by the remote party across reads and bursts, the consumer
\* never crashes, prints the values in arrival order, each once, and has
\* printed them all once every byte is read and the burst is consumed.
ChunkingIndependence ==
    IsPush => /\ pc # "panicked"
              /\ IsPrefix(printed, replies)
              /\ (pending = <<>> /\ sock = <<>> /\ res = <<>> /\ pc = "read")
                    => printed = replies

\* C10: request/response completion. In interactive request/response mode,
\* once the whole reply has been delivered the client goes on to print exactly
\* that value and return to the prompt: it is never left waiting in read() for
\* bytes beyond the reply, and what it has printed on return is the reply.
RequestCompletes ==
    (mode = "interactive" /\ ~IsPush)
        => /\ (/\ pc \in {"read", "parse"} /\ pending = <<>>
               /\ res \o sock = RespAll(replies))
                  => ENABLED ClientStep
           /\ pc = "returned" => printed = replies

\* C11: push-mode loop exit. After "monitor" or "subscribe" the loop is left
\* only by an interrupt or by the close of the connection, and once the
\* connection is closed the loop does end: the client stops (it returns, or
\* the process ends) instead of reading again and again.
PushLoopExits ==
    /\ [](IsPush /\ pc = "returned" => closed)
    /\ (IsPush /\ closed) ~> (pc \in {"returned", "panicked", "exited"})

=============================================================================
